---- MODULE Spec2Model ----
(***************************************************************************)
(* SensitivityAnalysisService (tvb_epilepsy/base/                          *)
(* sensitivity_analysis_service.py): construction (__init__) and run, as a *)
(* state machine over the fields of one service object.                    *)
(*                                                                         *)
(* Python values are modelled as follows.                                   *)
(*   - a str is the tuple of its characters, so that str.lower() is        *)
(*     computed character by character;                                     *)
(*   - an optional/dynamically typed argument is a record [kind, val],     *)
(*     kind \in {"none","bool","int","float","str","list"}; a float's val  *)
(*     is the number in hundredths (0.95 is 95), a bool's val is 0 or 1;   *)
(*   - a numpy array is [shape, data]: shape <<n>> or <<r, c>>, data the   *)
(*     elements in row-major order;                                         *)
(*   - a dict is a function from its keys;                                  *)
(*   - indices (input_ids, output_ids) are 0-based as in the source.       *)
(***************************************************************************)
EXTENDS Integers, Sequences, FiniteSets, TLC

VARIABLES
    phase,              \* "new" | "configured" | "failed" (__init__ raised)
    method,             \* self.method
    calc_second_order,  \* self.calc_second_order
    conf_level,         \* self.conf_level
    n_samples,          \* self.n_samples
    n_inputs,           \* self.n_inputs
    input_names,        \* self.input_names
    input_bounds,       \* self.input_bounds
    input_samples,      \* self.input_samples
    n_outputs,          \* self.n_outputs
    output_values,      \* self.output_values
    output_names,       \* self.output_names
    problem,            \* self.problem
    other_parameters,   \* self.other_parameters
    analyzer,           \* self.analyzer: the SALib routine the lambda is bound to
    call,               \* the call that completed last: arguments and outcome
    descriptors         \* the inputs and outputs the object was constructed from

vars == <<phase, method, calc_second_order, conf_level, n_samples, n_inputs,
          input_names, input_bounds, input_samples, n_outputs, output_values,
          output_names, problem, other_parameters, analyzer, call, descriptors>>

samples_vars == <<n_samples, n_inputs, input_names, input_bounds, input_samples,
                  n_outputs, output_values, output_names>>

-----------------------------------------------------------------------------
(* Bounds of the model.                                                    *)

\* Most inputs of one construction.
MaxInputs == 2
\* Longest sample vector; array axes run to MaxSamples + 1.
MaxSamples == 2
\* Most output descriptors of one construction.
MaxOutputs == 2

MaxDim == MaxSamples + 1

-----------------------------------------------------------------------------
(* Python values.                                                          *)

NoneVal == [kind |-> "none", val |-> 0]
NoneSeq == [kind |-> "none", val |-> <<>>]
PyBool(b) == [kind |-> "bool", val |-> IF b THEN 1 ELSE 0]
PyInt(i) == [kind |-> "int", val |-> i]
PyFloat(h) == [kind |-> "float", val |-> h]
PyStr(s) == [kind |-> "str", val |-> s]
PyList(s) == [kind |-> "list", val |-> s]

EmptyDict == [k \in {} |-> 0]

\* range(n): 0, 1, ..., n-1
range(n) == [i \in 1..n |-> i - 1]

UpperCase == <<"A","B","C","D","E","F","G","H","I","J","K","L","M",
               "N","O","P","Q","R","S","T","U","V","W","X","Y","Z">>
LowerCase == <<"a","b","c","d","e","f","g","h","i","j","k","l","m",
               "n","o","p","q","r","s","t","u","v","w","x","y","z">>

\* A lower() that keeps the case of every character.
lower_identity(s) == s

\* str.lower(): every cased character mapped to its lower-case form.
lower(s) ==
    [i \in 1..Len(s) |->
        IF \E k \in 1..26 : UpperCase[k] = s[i]
        THEN LowerCase[CHOOSE k \in 1..26 : UpperCase[k] = s[i]]
        ELSE s[i]]

\* np.in1d(x, list), used as a truth value for a scalar x.
in1d(x, list) == \E i \in 1..Len(list) : list[i] = x

sobol == <<"s","o","b","o","l">>
latin == <<"l","a","t","i","n">>
delta == <<"d","e","l","t","a">>
dgsm == <<"d","g","s","m">>
fast == <<"f","a","s","t">>
fast_sampler == <<"f","a","s","t","_","s","a","m","p","l","e","r">>
morris == <<"m","o","r","r","i","s">>
ff == <<"f","f">>
fractional_factorial == <<"f","r","a","c","t","i","o","n","a","l","_",
                          "f","a","c","t","o","r","i","a","l">>

METHODS == <<sobol, latin, delta, dgsm, fast, fast_sampler, morris, ff,
             fractional_factorial>>

-----------------------------------------------------------------------------
(* numpy arrays.                                                           *)

Array1(d) == [shape |-> <<Len(d)>>, data |-> d]
\* The Python list [] that output_values and input_samples start as.
EmptyArray == [shape |-> <<0>>, data |-> <<>>]

size(a) == Len(a.data)
ndim(a) == Len(a.shape)

flatten(a) == [shape |-> <<Len(a.data)>>, data |-> a.data]

\* a.T: a 2-D array transposed, a 1-D array itself.
T(a) ==
    IF ndim(a) = 2
    THEN LET r == a.shape[1]
             c == a.shape[2]
         IN [shape |-> <<c, r>>,
             data |-> [p \in 1..(r * c) |->
                          a.data[((p - 1) % r) * c + ((p - 1) \div r) + 1]]]
    ELSE a

\* a.min(), a.max() of a non-empty array.
min(a) == CHOOSE v \in {a.data[i] : i \in 1..size(a)} :
              \A i \in 1..size(a) : v <= a.data[i]
max(a) == CHOOSE v \in {a.data[i] : i \in 1..size(a)} :
              \A i \in 1..size(a) : v >= a.data[i]

RECURSIVE Concat(_)
Concat(seqs) == IF seqs = <<>> THEN <<>> ELSE Head(seqs) \o Concat(Tail(seqs))

\* np.array(list of equal-length 1-D arrays): one row per array.
array_of_rows(list) ==
    IF list = <<>> THEN EmptyArray
    ELSE [shape |-> <<Len(list), size(list[1])>>,
          data |-> Concat([i \in 1..Len(list) |-> list[i].data])]

\* Rows and columns of an array as np.vstack sees it: 1-D is one row.
rows(a) == IF ndim(a) = 2 THEN a.shape[1] ELSE 1
cols(a) == IF ndim(a) = 2 THEN a.shape[2] ELSE a.shape[1]

RECURSIVE SumRows(_)
SumRows(list) == IF list = <<>> THEN 0 ELSE rows(Head(list)) + SumRows(Tail(list))

\* np.vstack(list): arrays stacked row-wise; all must have the same number
\* of columns, otherwise numpy raises ValueError.
vstack_ok(list) == \A i \in 1..Len(list) : cols(list[i]) = cols(list[1])
vstack(list) ==
    [shape |-> <<SumRows(list), cols(list[1])>>,
     data |-> Concat([i \in 1..Len(list) |-> list[i].data])]

\* a[:, j] of a 2-D array (j 0-based): IndexError unless j < number of columns.
column_ok(a, j) == ndim(a) = 2 /\ j >= 0 /\ j < a.shape[2]
column(a, j) ==
    Array1([i \in 1..a.shape[1] |-> a.data[(i - 1) * a.shape[2] + j + 1]])

\* a[:, ids] of a 2-D array: the columns ids, in that order.
columns(a, ids) ==
    [shape |-> <<a.shape[1], Len(ids)>>,
     data |-> [p \in 1..(a.shape[1] * Len(ids)) |->
                  a.data[((p - 1) \div Len(ids)) * a.shape[2]
                         + ids[((p - 1) % Len(ids)) + 1] + 1]]]

-----------------------------------------------------------------------------
(* Settings: _set_method, _set_calc_second_order, _set_conf_level.         *)
(* s is the object under construction or update, with exc/line recording   *)
(* the exception raised (exc = "none": none) and the source line raising.  *)

raise(s, e, l) == [s EXCEPT !.exc = e, !.line = l]

_set_method(s, m) ==
    IF m.kind # "str" THEN raise(s, "AttributeError", 124)
    ELSE IF in1d(lower(m.val), METHODS)
         THEN [s EXCEPT !.method = lower(m.val)]
         ELSE raise(s, "ValueError", 128)

_set_calc_second_order(s, c) ==
    IF c.kind = "bool"
    THEN [s EXCEPT !.calc_second_order = c]
    ELSE raise(s, "ValueError", 135)

\* A _set_conf_level that takes the interval closed at 1.0.
_set_conf_level_inclusive(s, l) ==
    IF l.kind = "float" /\ l.val > 0 /\ l.val <= 100
    THEN [s EXCEPT !.conf_level = l]
    ELSE raise(s, "ValueError", 141)

_set_conf_level(s, l) ==
    IF l.kind = "float" /\ l.val > 0 /\ l.val < 100
    THEN [s EXCEPT !.conf_level = l]
    ELSE raise(s, "ValueError", 141)

\* _update_parameters: line 150 calls self._calc_set_second_order, a method
\* the class does not define, so the attribute lookup raises AttributeError.
_update_parameters(s, m, c, l) ==
    LET s1 == IF m.kind # "none" THEN _set_method(s, m) ELSE s
        s2 == IF s1.exc = "none" /\ c.kind # "none"
              THEN raise(s1, "AttributeError", 150) ELSE s1
        s3 == IF s2.exc = "none" /\ l.kind # "none"
              THEN _set_conf_level(s2, l) ELSE s2
    IN s3

-----------------------------------------------------------------------------
(* __init__.                                                               *)

\* self.n_samples when there are no inputs: it stays the list [] of line 30,
\* which equals no array size and no axis length.
NoSampleCount == -1

\* The fields of an object on which nothing is set yet.
Blank ==
    [exc |-> "none", line |-> 0,
     method |-> <<>>, calc_second_order |-> NoneVal, conf_level |-> NoneVal,
     n_samples |-> NoSampleCount, n_inputs |-> 0, input_names |-> <<>>,
     input_bounds |-> <<>>, input_samples |-> EmptyArray,
     n_outputs |-> 0, output_values |-> EmptyArray, output_names |-> <<>>,
     problem |-> EmptyDict, other_parameters |-> EmptyDict, analyzer |-> "none"]

\* Lines 36-44: one pass of the loop over the inputs per descriptor. The
\* default of input.get("bounds", ...) is evaluated whether or not the key
\* is there, and min() of an empty array raises ValueError.
RECURSIVE inputs_loop(_, _)
inputs_loop(inputs, acc) ==
    IF inputs = <<>> \/ acc.exc # "none" THEN acc
    ELSE LET input == Head(inputs)
             samples == flatten(input.samples)
         IN IF size(samples) = 0
            THEN raise(acc, "ValueError", 44)
            ELSE inputs_loop(Tail(inputs),
                    [acc EXCEPT
                        !.names = Append(@, input.name),
                        !.n_samples = Append(@, size(samples)),
                        !.samples = Append(@, samples),
                        !.bounds = Append(@,
                            IF input.bounds.kind = "none"
                            THEN <<min(samples), max(samples)>>
                            ELSE input.bounds.val)])

\* A comparison that lets longer sample vectors through.
not_fewer_than_first(counts) == \A i \in 1..Len(counts) : counts[i] >= counts[1]

\* Line 47: np.all(np.array(self.n_samples) == self.n_samples[0])
all_equal(counts) == \A i \in 1..Len(counts) : counts[i] = counts[1]

\* The stacked samples without the transposition.
no_transpose(list) == array_of_rows(list)

\* Line 52: np.array(self.input_samples).T
samples_matrix(list) == T(array_of_rows(list))

\* Lines 75-79: the names one output contributes.
names_of(names, n) ==
    IF n > 1 /\ Len(names) = 1
    THEN [k \in 1..n |-> names[1] \o "[" \o ToString(k - 1) \o "]"]
    ELSE names

\* Lines 58-79: one pass of the loop over the outputs per descriptor; ns is
\* self.n_samples. shape[1] of a 1-D array raises IndexError (line 67).
RECURSIVE outputs_loop(_, _, _)
outputs_loop(outputs, ns, acc) ==
    IF outputs = <<>> \/ acc.exc # "none" THEN acc
    ELSE LET output == Head(outputs)
             v == output.values
             add(a, n) == outputs_loop(Tail(outputs), ns,
                              [acc EXCEPT !.values = Append(@, a),
                                          !.n_outputs = @ + n,
                                          !.names = @ \o names_of(output.names, n)])
         IN IF size(v) = ns THEN add(flatten(v), 1)
            ELSE IF v.shape[1] = ns THEN add(v, v.shape[2])
            ELSE IF ndim(v) < 2 THEN raise(acc, "IndexError", 67)
            ELSE IF v.shape[2] = ns THEN add(T(v), v.shape[1])
            ELSE raise(acc, "ValueError", 71)

__init__(inputs, outputs, m, c, l) ==
    LET s1 == _set_method(Blank, m)
        s2 == IF s1.exc = "none" THEN _set_calc_second_order(s1, c) ELSE s1
        s3 == IF s2.exc = "none" THEN _set_conf_level(s2, l) ELSE s2
        ins == inputs_loop(inputs, [exc |-> "none", line |-> 0, names |-> <<>>,
                                    n_samples |-> <<>>, samples |-> <<>>,
                                    bounds |-> <<>>])
        ns == IF Len(ins.n_samples) > 0 THEN ins.n_samples[1] ELSE NoSampleCount
        s4 == [s3 EXCEPT !.n_inputs = Len(inputs),
                         !.input_names = ins.names,
                         !.input_bounds = ins.bounds,
                         !.n_samples = ns,
                         !.input_samples = samples_matrix(ins.samples)]
        outs == outputs_loop(outputs, ns, [exc |-> "none", line |-> 0,
                                           values |-> <<>>, n_outputs |-> 0,
                                           names |-> <<>>])
        s5 == [s4 EXCEPT !.n_outputs = outs.n_outputs,
                         !.output_names = outs.names,
                         !.output_values = IF Len(outs.values) > 0
                                           THEN vstack(outs.values)
                                           ELSE EmptyArray]
    IN IF s3.exc # "none" THEN s3
       ELSE IF ins.exc # "none" THEN raise(s3, ins.exc, ins.line)
       ELSE IF ~all_equal(ins.n_samples) THEN raise(s3, "ValueError", 50)
       ELSE IF outs.exc # "none" THEN raise(s4, outs.exc, outs.line)
       ELSE IF Len(outs.values) > 0 /\ ~vstack_ok(outs.values)
            THEN raise(s4, "ValueError", 82)
       ELSE s5

-----------------------------------------------------------------------------
(* run.                                                                    *)

\* dict.get(key, default)
get(d, key, default) == IF key \in DOMAIN d THEN d[key] ELSE default

\* Lines 174-256: the if/elif chain that binds self.analyzer, by the SALib
\* routine the lambda calls; "none" is the final else, which raises.
dispatch(m) ==
    IF lower(m) = sobol THEN "sobol.analyze"
    ELSE IF in1d(lower(m), <<latin, delta>>) THEN "delta.analyze"
    ELSE IF in1d(lower(m), <<fast, fast_sampler>>) THEN "fast.analyze"
    ELSE IF in1d(lower(m), <<ff, fractional_factorial>>) THEN "ff.analyze"
    ELSE IF lower(lower(m)) = morris THEN "morris.analyze"
    ELSE IF lower(m) = dgsm THEN "dgsm.analyze"
    ELSE "none"

\* The keyword arguments each lambda passes to its routine.
keywords(s, routine) ==
    LET o == s.other_parameters
        num_resamples == get(o, "num_resamples", 1000)
        print_to_console == get(o, "print_to_console", 0)
    IN CASE routine = "sobol.analyze" ->
              [calc_second_order |-> s.calc_second_order,
               conf_level |-> s.conf_level, num_resamples |-> num_resamples,
               parallel |-> get(o, "parallel", 0),
               n_processors |-> get(o, "n_processors", 0),
               print_to_console |-> print_to_console]
         [] routine = "fast.analyze" ->
              [M |-> get(o, "M", 4), print_to_console |-> print_to_console]
         [] routine = "ff.analyze" ->
              [calc_second_order |-> s.calc_second_order,
               conf_level |-> s.conf_level, num_resamples |-> num_resamples,
               print_to_console |-> print_to_console]
         [] routine = "morris.analyze" ->
              [conf_level |-> s.conf_level,
               grid_jump |-> get(o, "grid_jump", 2),
               num_levels |-> get(o, "num_levels", 4),
               num_resamples |-> num_resamples,
               print_to_console |-> print_to_console]
         [] OTHER ->
              [conf_level |-> s.conf_level, num_resamples |-> num_resamples,
               print_to_console |-> print_to_console]

\* One invocation of self.analyzer on an output column: what the SALib
\* routine is handed. sobol and fast take no input samples.
invocation(s, ids, output) ==
    [routine |-> s.analyzer,
     problem |-> s.problem,
     X |-> IF s.analyzer \in {"sobol.analyze", "fast.analyze"}
           THEN EmptyArray ELSE columns(s.input_samples, ids),
     Y |-> output,
     keywords |-> keywords(s, s.analyzer)]

\* Lines 260-262: the loop over output_ids. acc collects the names, the
\* invocations made and, per invocation, the routine's result, which stands
\* for the statistics of the column it was handed.
RECURSIVE outputs_run(_, _, _, _)
outputs_run(s, ids, output_ids, acc) ==
    IF output_ids = <<>> \/ acc.exc # "none" THEN acc
    ELSE LET io == Head(output_ids)
         IN IF ~(io >= 0 /\ io < Len(s.output_names))
            THEN raise(acc, "IndexError", 261)
            ELSE IF ndim(s.output_values) # 2
            THEN raise([acc EXCEPT !.names = Append(@, s.output_names[io + 1])],
                       "TypeError", 262)
            ELSE IF ~column_ok(s.output_values, io)
            THEN raise([acc EXCEPT !.names = Append(@, s.output_names[io + 1])],
                       "IndexError", 262)
            ELSE LET inv == invocation(s, ids, column(s.output_values, io))
                 IN outputs_run(s, ids, Tail(output_ids),
                        [acc EXCEPT !.names = Append(@, s.output_names[io + 1]),
                                    !.calls = Append(@, inv),
                                    !.results = Append(@, [S1 |-> inv.Y.data])])

\* list_of_dicts_to_dicts_of_ndarrays (tvb_epilepsy.base.utils): per key,
\* the values of the dictionaries in list order.
list_of_dicts_to_dicts_of_ndarrays(results) ==
    IF results = <<>> THEN EmptyDict
    ELSE [k \in DOMAIN results[1] |-> [i \in 1..Len(results) |-> results[i][k]]]

\* dict.update with one more key
update(d, key, value) ==
    [k \in DOMAIN d \cup {key} |-> IF k = key THEN value ELSE d[k]]

\* A dict.update of the old keywords instead of the assignment.
merge_parameters(old, kwargs) ==
    [k \in DOMAIN old \cup DOMAIN kwargs |->
        IF k \in DOMAIN kwargs THEN kwargs[k] ELSE old[k]]

\* Line 160: self.other_parameters = kwargs
set_other_parameters(old, kwargs) == kwargs

\* Lines 165-167: the problem descriptor of the inputs ids.
problem_of(s, ids) ==
    [num_vars |-> Len(ids),
     names |-> [k \in 1..Len(ids) |-> s.input_names[ids[k] + 1]],
     bounds |-> [k \in 1..Len(ids) |-> s.input_bounds[ids[k] + 1]]]

\* A selection that counts the selected outputs in self.n_outputs.
select_outputs_on_self(s, oids) == [s EXCEPT !.n_outputs = Len(oids)]

\* Lines 169-172: n_outputs = len(output_ids) is a local of run; the object
\* keeps its n_outputs.
select_outputs(s, oids) == s

\* run: the object after the call (fields set before a raise stay set), the
\* exception, the invocations made and the value returned.
run(s, input_ids, output_ids, m, c, l, kwargs) ==
    LET s1 == _update_parameters(s, m, c, l)
        ids == IF input_ids.kind = "none" THEN range(s1.n_inputs) ELSE input_ids.val
        s2 == [s1 EXCEPT !.other_parameters = set_other_parameters(@, kwargs),
                         !.problem = problem_of(s1, ids)]
        oids == IF output_ids.kind = "none" THEN range(s2.n_outputs)
                ELSE output_ids.val
        s3 == [select_outputs(s2, oids) EXCEPT !.analyzer = dispatch(s2.method)]
        loop == outputs_run(s3, ids, oids,
                            [exc |-> "none", line |-> 0, names |-> <<>>,
                             calls |-> <<>>, results |-> <<>>])
        none == [calls |-> <<>>, ret |-> EmptyDict]
    IN IF s1.exc # "none" THEN [self |-> s1] @@ none
       ELSE IF dispatch(s2.method) = "none"
            THEN [self |-> raise(s2, "ValueError", 255)] @@ none
       ELSE IF loop.exc # "none"
            THEN [self |-> raise(s3, loop.exc, loop.line),
                  calls |-> loop.calls, ret |-> EmptyDict]
       ELSE [self |-> s3, calls |-> loop.calls,
             ret |-> update(list_of_dicts_to_dicts_of_ndarrays(loop.results),
                            "output_names", loop.names)]

-----------------------------------------------------------------------------
(* The operations on one service object.                                   *)

Self ==
    [exc |-> "none", line |-> 0,
     method |-> method, calc_second_order |-> calc_second_order,
     conf_level |-> conf_level, n_samples |-> n_samples, n_inputs |-> n_inputs,
     input_names |-> input_names, input_bounds |-> input_bounds,
     input_samples |-> input_samples, n_outputs |-> n_outputs,
     output_values |-> output_values, output_names |-> output_names,
     problem |-> problem, other_parameters |-> other_parameters,
     analyzer |-> analyzer]

Becomes(s) ==
    /\ method' = s.method
    /\ calc_second_order' = s.calc_second_order
    /\ conf_level' = s.conf_level
    /\ n_samples' = s.n_samples
    /\ n_inputs' = s.n_inputs
    /\ input_names' = s.input_names
    /\ input_bounds' = s.input_bounds
    /\ input_samples' = s.input_samples
    /\ n_outputs' = s.n_outputs
    /\ output_values' = s.output_values
    /\ output_names' = s.output_names
    /\ problem' = s.problem
    /\ other_parameters' = s.other_parameters
    /\ analyzer' = s.analyzer

NoCall ==
    [op |-> "none", args |-> EmptyDict, exc |-> "none", line |-> 0,
     calls |-> <<>>, ret |-> EmptyDict,
     before |-> [problem |-> EmptyDict, other_parameters |-> EmptyDict]]

NoDescriptors == [inputs |-> <<>>, outputs |-> <<>>]

Init ==
    /\ phase = "new"
    /\ method = Blank.method
    /\ calc_second_order = Blank.calc_second_order
    /\ conf_level = Blank.conf_level
    /\ n_samples = Blank.n_samples
    /\ n_inputs = Blank.n_inputs
    /\ input_names = Blank.input_names
    /\ input_bounds = Blank.input_bounds
    /\ input_samples = Blank.input_samples
    /\ n_outputs = Blank.n_outputs
    /\ output_values = Blank.output_values
    /\ output_names = Blank.output_names
    /\ problem = Blank.problem
    /\ other_parameters = Blank.other_parameters
    /\ analyzer = Blank.analyzer
    /\ call = NoCall
    /\ descriptors = NoDescriptors

\* SensitivityAnalysisService(inputs, outputs, method, calc_second_order,
\* conf_level): when __init__ raises, no object exists.
Construct(a) ==
    /\ phase = "new"
    /\ \E o \in {__init__(a.inputs, a.outputs, a.method, a.calc_second_order,
                         a.conf_level)} :
          /\ phase' = IF o.exc = "none" THEN "configured" ELSE "failed"
          /\ Becomes(IF o.exc = "none" THEN o ELSE Blank)
          /\ call' = [NoCall EXCEPT !.op = "__init__", !.args = a,
                                    !.exc = o.exc, !.line = o.line]
          /\ descriptors' = IF o.exc = "none"
                            THEN [inputs |-> a.inputs, outputs |-> a.outputs]
                            ELSE NoDescriptors

\* service.run(input_ids, output_ids, method, calc_second_order, conf_level,
\* **kwargs) on a constructed object.
Run(a) ==
    /\ phase = "configured"
    /\ \E r \in {run(Self, a.input_ids, a.output_ids, a.method,
                    a.calc_second_order, a.conf_level, a.kwargs)} :
          /\ phase' = phase
          /\ Becomes(r.self)
          /\ call' = [op |-> "run", args |-> a, exc |-> r.self.exc,
                      line |-> r.self.line, calls |-> r.calls, ret |-> r.ret,
                      before |-> [problem |-> problem,
                                  other_parameters |-> other_parameters]]
          /\ UNCHANGED descriptors

-----------------------------------------------------------------------------
(* The arguments the operations are tried on. Array elements are pairwise  *)
(* distinct, so that every element of a normalised matrix identifies the   *)
(* descriptor and the position it came from.                               *)

\* Input descriptor i with n samples, given flat or as an (n, 1) column,
\* with or without the "bounds" key. The samples are not sorted.
InputDesc(i, n, column_form, with_bounds) ==
    [name |-> "x" \o ToString(i),
     samples |-> [shape |-> IF column_form THEN <<n, 1>> ELSE <<n>>,
                  data |-> [p \in 1..n |-> 10 * i + (p % n)]],
     bounds |-> IF with_bounds THEN PyList(<<0 - i, 50 + i>>) ELSE NoneSeq]

\* The names a caller gives output d: one name, or one per column.
OutputNames(d, n, each) ==
    IF each THEN [k \in 1..n |-> "y" \o ToString(d) \o "_" \o ToString(k - 1)]
    ELSE <<"y" \o ToString(d)>>

\* The number of columns the caller means an array of this shape to have
\* for ns samples.
Columns(shape, ns) ==
    IF Len(shape) = 1 THEN 1
    ELSE IF shape[1] * shape[2] = ns THEN 1
    ELSE IF shape[1] = ns THEN shape[2]
    ELSE shape[1]

OutputDesc(d, shape, ns, each) ==
    [names |-> OutputNames(d, Columns(shape, ns), each),
     values |-> [shape |-> shape,
                 data |-> [p \in 1..(IF Len(shape) = 1 THEN shape[1]
                                      ELSE shape[1] * shape[2]) |-> 100 * d + p]]]

Shapes == {<<n>> : n \in 1..MaxDim} \cup {<<r, c>> : r, c \in 1..MaxDim}

InputForms ==
    {[n |-> n, column_form |-> f, with_bounds |-> b] :
        n \in 0..MaxSamples, f \in BOOLEAN, b \in BOOLEAN} \
    {[n |-> 0, column_form |-> TRUE, with_bounds |-> b] : b \in BOOLEAN}

InputsOfForms(k, f) ==
    [i \in 1..k |-> InputDesc(i, f[i].n, f[i].column_form, f[i].with_bounds)]

\* k inputs of n samples each, the even ones with bounds.
InputsOf(k, n) == [i \in 1..k |-> InputDesc(i, n, FALSE, i % 2 = 0)]

OutputsOfShapes(k, sh, ns, each) == [d \in 1..k |-> OutputDesc(d, sh[d], ns, each)]

DefaultSettings ==
    [method |-> PyStr(delta), calc_second_order |-> PyBool(TRUE),
     conf_level |-> PyFloat(95)]

ConstructArg(ins, outs, st) ==
    [inputs |-> ins, outputs |-> outs, method |-> st.method,
     calc_second_order |-> st.calc_second_order, conf_level |-> st.conf_level]

\* Index lists below n: each index alone, and each two neighbouring indices
\* in ascending and in descending order.
IdLists(n) ==
    {<<i>> : i \in 0..(n - 1)} \cup
    {<<i, i + 1>> : i \in 0..(n - 2)} \cup {<<i + 1, i>> : i \in 0..(n - 2)}

RunArg(iids, oids, m, c, l, kw) ==
    [input_ids |-> iids, output_ids |-> oids, method |-> m,
     calc_second_order |-> c, conf_level |-> l, kwargs |-> kw]

\* Runs without overrides, on every choice of outputs.
DataRunArgs ==
    {RunArg(iids, oids, NoneSeq, NoneVal, NoneVal, EmptyDict) :
        iids \in {NoneSeq},
        oids \in {NoneSeq, PyList(<<>>)} \cup {PyList(q) : q \in IdLists(n_outputs)}}

\* Constructions with the default settings: every input list, against no
\* output and against one flat output.
ConstructInputs ==
    /\ phase = "new"
    /\ \E k \in 0..MaxInputs, outs \in {<<>>, <<OutputDesc(1, <<MaxSamples>>,
                                                           MaxSamples, FALSE)>>} :
          \E f \in [1..k -> InputForms] :
             Construct(ConstructArg(InputsOfForms(k, f), outs, DefaultSettings))

\* Constructions with the default settings: every output list, against no
\* input and against one and two inputs of each length.
ConstructOutputs ==
    /\ phase = "new"
    /\ \E ki \in 0..2, n \in 1..MaxSamples, k \in 0..MaxOutputs, each \in BOOLEAN :
          \E sh \in [1..k -> Shapes] :
             Construct(ConstructArg(
                 InputsOf(ki, n),
                 OutputsOfShapes(k, sh, IF ki = 0 THEN NoSampleCount ELSE n, each),
                 DefaultSettings))

RunOutputs == phase = "configured" /\ \E a \in DataRunArgs : Run(a)

NextData == ConstructInputs \/ ConstructOutputs \/ RunOutputs

\* Every construction and run of the sample normaliser, default settings.
SpecData == Init /\ [][NextData]_vars

-----------------------------------------------------------------------------
(* Settings and overrides, on one fixed configuration of two inputs and    *)
(* one two-column output.                                                  *)

SmallInputs == InputsOf(2, MaxSamples)
SmallOutputs == <<OutputDesc(1, <<MaxSamples, 2>>, MaxSamples, FALSE)>>

lhs == <<"l","h","s">>
SOBOL == <<"S","O","B","O","L">>

\* calc_second_order arguments: the booleans and the integer 1.
Flags == {PyBool(TRUE), PyBool(FALSE), PyInt(1)}

\* conf_level arguments: the floats 0.0, 0.01, 0.95 and 1.0, the integer 1
\* and the string "0.5".
Levels ==
    {PyFloat(0), PyFloat(1), PyFloat(95), PyFloat(100), PyInt(1),
     [kind |-> "str", val |-> 50]}

\* Keyword arguments of a run; False is written 0 and True 1.
Keywords ==
    {EmptyDict, [num_resamples |-> 10], [M |-> 8, print_to_console |-> 1]}

ConstructSettings ==
    /\ phase = "new"
    /\ \E m \in {PyStr(delta), PyStr(lhs)}, c \in Flags, l \in Levels :
          Construct(ConstructArg(SmallInputs, SmallOutputs,
                                 [method |-> m, calc_second_order |-> c,
                                  conf_level |-> l]))

\* run with no override, on a choice of inputs, outputs and keywords.
RunPlain ==
    /\ phase = "configured"
    /\ \E iids \in {NoneSeq, PyList(<<0>>), PyList(<<1, 0>>)},
          oids \in {NoneSeq, PyList(<<1>>)}, kw \in Keywords :
          Run(RunArg(iids, oids, NoneSeq, NoneVal, NoneVal, kw))

\* run with overrides of the settings.
RunOverride ==
    /\ phase = "configured"
    /\ \E m \in {NoneSeq, PyStr(SOBOL), PyStr(lhs)}, c \in {NoneVal} \cup Flags,
          l \in {NoneVal} \cup Levels :
          /\ m.kind = "none" \/ c.kind = "none" \/ l \in {NoneVal, PyFloat(1), PyFloat(100)}
          /\ Run(RunArg(NoneSeq, NoneSeq, m, c, l, EmptyDict))

Next == ConstructSettings \/ RunPlain \/ RunOverride

Spec == Init /\ [][Next]_vars

-----------------------------------------------------------------------------
(* Method names, in every spelling.                                        *)

upper(s) ==
    [i \in 1..Len(s) |->
        IF \E k \in 1..26 : LowerCase[k] = s[i]
        THEN UpperCase[CHOOSE k \in 1..26 : LowerCase[k] = s[i]]
        ELSE s[i]]

capitalize(s) == [i \in 1..Len(s) |-> IF i = 1 THEN upper(s)[1] ELSE s[i]]

\* The nine names in lower case, in upper case and capitalised, and strings
\* that are no method name in any case.
Spellings ==
    UNION {{METHODS[i], upper(METHODS[i]), capitalize(METHODS[i])} : i \in 1..Len(METHODS)}
    \cup {lhs, upper(lhs), sobol \o <<"s">>, SubSeq(sobol, 1, 4), <<"f">>,
          SubSeq(fast_sampler, 1, 5), <<>>}

ConstructMethods ==
    /\ phase = "new"
    /\ \E m \in Spellings :
          Construct(ConstructArg(SmallInputs, SmallOutputs,
                                 [DefaultSettings EXCEPT !.method = PyStr(m)]))

RunMethods ==
    /\ phase = "configured"
    /\ \E m \in {NoneSeq} \cup {PyStr(sp) : sp \in Spellings},
          l \in {NoneVal, PyFloat(100)} :
          Run(RunArg(NoneSeq, NoneSeq, m, NoneVal, l, EmptyDict))

NextMethods == ConstructMethods \/ RunMethods

SpecMethods == Init /\ [][NextMethods]_vars

-----------------------------------------------------------------------------
(* What the specification says of the normalised samples.                  *)

\* An output array passes shape checking for ns samples: its size is ns, or
\* one of its two axes has length ns.
PassesShape(v, ns) ==
    \/ size(v) = ns
    \/ ndim(v) = 2 /\ (v.shape[1] = ns \/ v.shape[2] = ns)

\* The columns one output contributes, each the ns values of one column
\* with the sample axis running down.
NormalColumns(v, ns) ==
    IF size(v) = ns THEN <<v.data>>
    ELSE IF ndim(v) = 2 /\ v.shape[1] = ns
         THEN [c \in 1..v.shape[2] |->
                  [i \in 1..ns |-> v.data[(i - 1) * v.shape[2] + c]]]
    ELSE IF ndim(v) = 2 /\ v.shape[2] = ns
         THEN [c \in 1..v.shape[1] |-> [i \in 1..ns |-> v.data[(c - 1) * ns + i]]]
    ELSE <<>>

\* The columns of all outputs, in descriptor order.
AllColumns(outputs, ns) ==
    Concat([d \in 1..Len(outputs) |-> NormalColumns(outputs[d].values, ns)])

\* The (ns, k) matrix with the given k columns.
MatrixOfColumns(columnSeq, ns) ==
    [shape |-> <<ns, Len(columnSeq)>>,
     data |-> [p \in 1..(ns * Len(columnSeq)) |->
                  columnSeq[((p - 1) % Len(columnSeq)) + 1]
                           [((p - 1) \div Len(columnSeq)) + 1]]]

EqualLengths(inputs) ==
    \A i, j \in 1..Len(inputs) : size(inputs[i].samples) = size(inputs[j].samples)

RECURSIVE SortedSeq(_)
SortedSeq(S) ==
    IF S = {} THEN <<>>
    ELSE LET m == CHOOSE x \in S : \A y \in S : x <= y
         IN <<m>> \o SortedSeq(S \ {m})

\* The indices of a list in ascending order.
ascending(ids) == SortedSeq({ids[i] : i \in 1..Len(ids)})

\* The lines at which the validation of the settings raises.
ValidationLines == {124, 128, 135, 141, 150}
PastValidation == call.exc = "none" \/ call.line \notin ValidationLines

-----------------------------------------------------------------------------
(* Claims.                                                                 *)

\* C1: after a construction with outputs that pass shape checking,
\* output_values is the (n_samples, n_outputs) matrix of the outputs'
\* columns in descriptor order, n_outputs is the number of those columns and
\* there is one name per column.
C1_OutputMatrix ==
    (phase = "configured" /\ Len(descriptors.outputs) > 0) =>
        LET columnSeq == AllColumns(descriptors.outputs, n_samples)
        IN /\ n_outputs = Len(columnSeq)
           /\ Len(output_names) = n_outputs
           /\ output_values = MatrixOfColumns(columnSeq, n_samples)

\* C2: run(output_ids=[j]) invokes the analyzer exactly once, on the
\* n_samples values of output j, and returns output_names = [output_names[j]].
C2_SingleOutputRun ==
    (/\ call.op = "run"
     /\ call.args.output_ids.kind = "list"
     /\ Len(call.args.output_ids.val) = 1) =>
        LET j == call.args.output_ids.val[1]
            columnSeq == AllColumns(descriptors.outputs, n_samples)
        IN /\ call.exc = "none"
           /\ Len(call.calls) = 1
           /\ call.calls[1].Y = Array1(columnSeq[j + 1])
           /\ call.ret.output_names = <<output_names[j + 1]>>

\* C4, for the selections whose list order is the ascending order
\* (output_ids omitted or ascending): run invokes the analyzer once per
\* selected column, in ascending index order, and output_names and every
\* statistic of the result list the processed outputs in the order of
\* invocation.
C4_InvocationOrder ==
    (/\ call.op = "run"
     /\ PastValidation
     /\ \/ call.args.output_ids.kind = "none"
        \/ call.args.output_ids.val = ascending(call.args.output_ids.val)) =>
        LET oids == IF call.args.output_ids.kind = "none" THEN range(n_outputs)
                    ELSE call.args.output_ids.val
            asc == ascending(oids)
        IN /\ call.exc = "none"
           /\ Len(call.calls) = Len(oids)
           /\ Len(call.ret.output_names) = Len(oids)
           /\ \A i \in 1..Len(oids) :
                 /\ call.calls[i].Y = column(output_values, asc[i])
                 /\ call.ret.output_names[i] = output_names[asc[i] + 1]
                 /\ call.ret.S1[i] = call.calls[i].Y.data

\* The inputs are normalised: nothing is raised on them (lines 36-52), and
\* the object constructed has n_samples their common length and
\* input_samples the (n_samples, n_inputs) matrix whose column i is the
\* flattened samples of descriptor i.
InputsNormalised(inputs) ==
    LET n == Len(inputs)
        L == size(inputs[1].samples)
    IN /\ call.exc = "none" \/ call.line \notin {44, 50}
       /\ phase = "configured" =>
             /\ n_samples = L
             /\ n_inputs = n
             /\ input_samples =
                   [shape |-> <<L, n>>,
                    data |-> [p \in 1..(L * n) |->
                                 inputs[((p - 1) % n) + 1].samples
                                     .data[((p - 1) \div n) + 1]]]

SettingsAccepted == call.exc = "none" \/ call.line \notin {124, 128, 135, 141}

\* C5 as stated: for every non-empty input list whose sample vectors have
\* one common length, length 0 included, the inputs are normalised.
C5_EqualLengthsConstruct ==
    (/\ call.op = "__init__"
     /\ SettingsAccepted
     /\ Len(call.args.inputs) > 0
     /\ EqualLengths(call.args.inputs)) => InputsNormalised(call.args.inputs)

\* C5, amended: for every non-empty input list whose sample vectors have
\* one common length of at least 1, with or without bounds, the inputs are
\* normalised.
C5_EqualNonEmptyLengths ==
    (/\ call.op = "__init__"
     /\ SettingsAccepted
     /\ Len(call.args.inputs) > 0
     /\ EqualLengths(call.args.inputs)
     /\ size(call.args.inputs[1].samples) >= 1) => InputsNormalised(call.args.inputs)

C5_Witness ==
    /\ call.op = "__init__"
    /\ phase = "configured"
    /\ n_inputs = 2
    /\ n_samples = 2
    /\ call.args.inputs[1].bounds.kind = "none"
    /\ call.args.inputs[2].samples.shape = <<2, 1>>

\* C6: a construction from inputs of which two have different numbers of
\* samples raises ValueError (the source's only error class for a shape
\* mismatch) and yields no object, whatever the outputs.
C6_UnequalLengthsFail ==
    (call.op = "__init__" /\ SettingsAccepted /\ ~EqualLengths(call.args.inputs)) =>
        /\ phase = "failed"
        /\ call.exc = "ValueError"
        /\ call.line \in {44, 50}
        /\ descriptors = NoDescriptors

C6_Witness ==
    /\ call.op = "__init__"
    /\ ~EqualLengths(call.args.inputs)
    /\ Len(call.args.outputs) > 0
    /\ call.line = 50

\* C7: a construction with an output whose array has neither size n_samples
\* nor an axis of length n_samples, a 1-D array of the wrong length
\* included, raises the ValueError of line 71.
C7_NoMatchingAxis ==
    (/\ call.op = "__init__"
     /\ SettingsAccepted
     /\ Len(call.args.inputs) > 0
     /\ EqualLengths(call.args.inputs)
     /\ size(call.args.inputs[1].samples) >= 1
     /\ \E d \in 1..Len(call.args.outputs) :
           ~PassesShape(call.args.outputs[d].values,
                        size(call.args.inputs[1].samples))) =>
        /\ phase = "failed"
        /\ call.exc = "ValueError"
        /\ call.line = 71

\* C3, as stated: a run given calc_second_order (and a method that is
\* accepted, if any) stores a boolean value as the flag and goes on past its
\* validation, and rejects any other value with ValueError before any
\* analyzer is invoked.
C3_SecondOrderOverride ==
    (/\ call.op = "run"
     /\ call.args.calc_second_order.kind # "none"
     /\ ~(call.exc = "ValueError" /\ call.line = 128)) =>
        IF call.args.calc_second_order.kind = "bool"
        THEN /\ calc_second_order = call.args.calc_second_order
             /\ call.exc = "none" \/ call.line \notin {135, 150}
        ELSE /\ call.exc = "ValueError"
             /\ call.calls = <<>>

\* Two strings differ at most in the case of their letters.
SameButCase(a, b) ==
    /\ Len(a) = Len(b)
    /\ \A i \in 1..Len(a) :
          \/ a[i] = b[i]
          \/ \E k \in 1..26 : {a[i], b[i]} = {UpperCase[k], LowerCase[k]}

IsMethodName(m) == \E i \in 1..Len(METHODS) : SameButCase(m, METHODS[i])
MethodNamed(m) == METHODS[CHOOSE i \in 1..Len(METHODS) : SameButCase(m, METHODS[i])]

\* The routine each method name stands for.
RoutineOf(m) ==
    CASE m = sobol -> "sobol.analyze"
      [] m \in {latin, delta} -> "delta.analyze"
      [] m \in {fast, fast_sampler} -> "fast.analyze"
      [] m \in {ff, fractional_factorial} -> "ff.analyze"
      [] m = morris -> "morris.analyze"
      [] m = dgsm -> "dgsm.analyze"

C8_Step ==
    /\ (call'.op \in {"__init__", "run"} /\ call'.args.method.kind = "str") =>
          IF IsMethodName(call'.args.method.val)
          THEN /\ method' = MethodNamed(call'.args.method.val)
               /\ ~(call'.exc = "ValueError" /\ call'.line = 128)
               /\ call'.op = "__init__" => phase' = "configured"
          ELSE /\ call'.exc = "ValueError"
               /\ call'.line = 128
               /\ call'.calls = <<>>
               /\ analyzer' = analyzer
               /\ method' = method
               /\ call'.op = "__init__" => phase' = "failed"
    /\ (call'.op = "run" /\ (call'.exc = "none" \/ call'.line \notin ValidationLines)) =>
          analyzer' = RoutineOf(method')

\* C8: a method string, at construction and as an override of run, is
\* accepted exactly when it is one of the nine method names up to letter
\* case, and then self.method is that name in lower case and a run that
\* passes validation binds the routine the name stands for; any other
\* string raises the ValueError of line 128 and leaves method and analyzer
\* as they were, with no analyzer invoked.
C8_MethodNames == [][C8_Step]_vars

C8_Witness ==
    /\ call.op = "run"
    /\ call.exc = "none"
    /\ call.args.method = PyStr(upper(fast_sampler))
    /\ call.before.problem # EmptyDict
    /\ method = fast_sampler
    /\ analyzer = "fast.analyze"
    /\ Len(call.calls) = 2

IsLevel(l) == l.kind = "float" /\ l.val > 0 /\ l.val < 100

C10_ProblemRebuilt ==
    (call.op = "run" /\ PastValidation) =>
        LET ids == IF call.args.input_ids.kind = "none"
                   THEN [i \in 1..n_inputs |-> i - 1]
                   ELSE call.args.input_ids.val
        IN /\ DOMAIN problem = {"num_vars", "names", "bounds"}
           /\ problem.num_vars = Len(ids)
           /\ Len(problem.names) = Len(ids)
           /\ Len(problem.bounds) = Len(ids)
           /\ \A k \in 1..Len(ids) :
                 /\ problem.names[k] = input_names[ids[k] + 1]
                 /\ problem.bounds[k] = input_bounds[ids[k] + 1]
           /\ other_parameters = call.args.kwargs

\* A run with one input and no keyword, after a run with other inputs and
\* with keywords.
C10_Witness ==
    /\ call.op = "run"
    /\ PastValidation
    /\ call.args.input_ids = PyList(<<0>>)
    /\ call.args.kwargs = EmptyDict
    /\ call.before.problem # EmptyDict
    /\ call.before.problem.num_vars = 2
    /\ call.before.other_parameters # EmptyDict
    /\ problem.names = <<input_names[1]>>

\* The samples of the object as the construction left them.
SamplesAsConstructed ==
    /\ n_samples = MaxSamples
    /\ n_inputs = Len(descriptors.inputs)
    /\ input_names = [i \in 1..n_inputs |-> descriptors.inputs[i].name]
    /\ input_samples.shape = <<n_samples, n_inputs>>
    /\ \A i \in 1..n_inputs : column(input_samples, i - 1).data =
                                  descriptors.inputs[i].samples.data
    /\ n_outputs = 2
    /\ output_values = descriptors.outputs[1].values

C11_Step == call'.op = "run" => UNCHANGED samples_vars

\* C11: no run, with or without overrides, on any inputs and outputs,
\* succeeding or failing, changes n_samples, n_inputs, n_outputs,
\* input_names, input_bounds, input_samples, output_names or output_values:
\* they stay as the construction left them.
C11_SamplesImmutable == [][C11_Step]_vars

\* A run that fails in the validation of an override, after a run that
\* succeeded on a choice of inputs and outputs with keywords, and the samples
\* are those of the construction.
C11_Witness ==
    /\ call.op = "run"
    /\ call.exc = "ValueError"
    /\ call.line = 141
    /\ call.before.problem # EmptyDict
    /\ call.before.problem.num_vars = 1
    /\ call.before.other_parameters # EmptyDict
    /\ SamplesAsConstructed

\* The lines at which a setter rejects the value it is given.
RejectionLines == {128, 135, 141}

C12_Step ==
    (/\ call'.op = "run"
     /\ call'.exc = "ValueError"
     /\ call'.line \in RejectionLines) =>
        UNCHANGED <<method, calc_second_order, conf_level, problem, other_parameters>>

\* C12, as stated: a run that raises because a setter rejects one of its
\* overrides leaves method, calc_second_order, conf_level, problem and
\* other_parameters as they were before the call.
C12_FailedValidationKeepsSettings == [][C12_Step]_vars

====
